---- MODULE Spec2Model ----
(***************************************************************************)
(* The amount-tagging and deposit-reconciliation engine of the BSC USDT    *)
(* gateway, src/index.js.  The file holds two variants of the program:     *)
(*   "mem"  lines 1-241   invoices in a Map, a lastProcessedTime mark      *)
(*   "db"   lines 243-571 invoices and processed_txs in Postgres           *)
(* The variable `variant` says which of the two programs is running.       *)
(*                                                                         *)
(* Decimal quantities are counted in units of 0.0001 token (field val);    *)
(* what lies below that, down to the token's smallest unit, is the field   *)
(* sub: a raw token value is val * 10^(decimals-4) + sub.  Every value     *)
(* carries its JavaScript type, because the code mixes strings and         *)
(* numbers and SameValueZero / === distinguish them.                       *)
(***************************************************************************)
EXTENDS Integers, Sequences, FiniteSets, TLC

VARIABLES
    variant,            \* "mem" or "db": which program of src/index.js runs
    TAG_MAX,            \* env TAG_MAX, in units of 0.0001
    invoices,           \* the invoice store, in insertion order
    req,                \* db: POST /api/invoices handlers between their awaits
    lastProcessedTime,  \* mem: the high-water mark
    loop,               \* depositLoop's position between its awaits
    processed_txs,      \* db: the processed_txs table
    now,                \* db: NOW(), in days
    everRecorded,       \* history: tx hashes ever inserted into processed_txs
    phase,              \* startup: which await of the module's top level is pending
    DECIMALS,           \* let DECIMALS
    timers              \* armed setTimeout(depositLoop, POLL_MS) callbacks

vars == <<variant, TAG_MAX, invoices, req, lastProcessedTime, loop,
          processed_txs, now, everRecorded, phase, DECIMALS, timers>>

---------------------------------------------------------------------------
(* Bounds of the model *)

MaxInvoices == 2        \* invoices ever stored
MaxPage == 2            \* transfers in one page of the feed
MaxNow == 31            \* days the clock runs

(* Program constants *)

TAG_STEP == 10          \* env TAG_STEP, default 0.001
RETENTION_DAYS == 30    \* INTERVAL '30 days'
DEFAULT_DECIMALS == 18  \* let DECIMALS = 18, and the fallback of init
TOKEN_DECIMALS == 18    \* what decimals() of the USDT contract on BSC returns

TagMaxChoices == {10, 20}          \* TAG_MAX=0.001 or TAG_MAX=0.002
Slots == {1, 2}                    \* requests that may be in flight together
ClockStep == RETENTION_DAYS + 1     \* days between two looks at the clock

---------------------------------------------------------------------------
(* Typed values *)

Num(v) == [type |-> "number", val |-> v, sub |-> 0]
Str(v, s) == [type |-> "string", val |-> v, sub |-> s]
BigInt(v, s) == [type |-> "bigint", val |-> v, sub |-> s]
Numeric(v, s) == [type |-> "numeric", val |-> v, sub |-> s]
Null == [type |-> "null", val |-> 0, sub |-> 0]
Undefined == [type |-> "undefined", val |-> 0, sub |-> 0]

\* Math.round(n * 1000) / 1000: to the nearest 0.001, halves up
roundTo3(n) == Num(((n.val + 5) \div 10) * 10)

\* Number.prototype.toFixed(3): a string
toFixed3(n) == Str(((n.val + 5) \div 10) * 10, 0)

\* Number(string)
ToNumber(s) == Num(s.val)

\* ethers.parseUnits(String(x), DECIMALS): decimal string to smallest units
parseUnits(s) == BigInt(s.val, s.sub)

\* ethers.formatUnits(raw, DECIMALS): smallest units to decimal string
formatTokenAmount(rawValue) == Str(rawValue.val, rawValue.sub)

\* ethers.formatUnits throws on a value that is no BigNumberish
FormatThrows(rawValue) == rawValue.type # "bigint"

\* a faulty amountsEqual: compares after rounding to three decimals
amountsEqualRounded(aStr, bStr) ==
    ((aStr.val + 5) \div 10) = ((bStr.val + 5) \div 10)

amountsEqual(aStr, bStr) == parseUnits(aStr) = parseUnits(bStr)

\* what INSERT stores in a NUMERIC(30,18) column, and what pg returns for it
ToNumeric(s) == Numeric(s.val, s.sub)
PgString(x) == Str(x.val, x.sub)

\* String.prototype.toLowerCase on the addresses and hashes of the model
ToLower(s) ==
    CASE s = "0xGate" -> "0xgate"
      [] s = "0xA1" -> "0xa1"
      [] OTHER -> s

WALLET == "0xGate"      \* wallet.address, checksum-cased

---------------------------------------------------------------------------
(* The feed: what tokentx may report *)

T1 == [hash |-> "0xA1", to |-> "0xgate", value |-> BigInt(100010, 0), timeStamp |-> 2]
T2 == [hash |-> "0xb2", to |-> "0xGate", value |-> BigInt(100010, 1), timeStamp |-> 1]
T3 == [hash |-> "0xc3", to |-> "0xother", value |-> BigInt(100010, 0), timeStamp |-> 3]
T4 == [hash |-> "0xd4", to |-> "0xgate", value |-> BigInt(100010, 0), timeStamp |-> 3]
\* an entry of the feed without a usable value field
T5 == [hash |-> "0xe5", to |-> "0xgate", value |-> Undefined, timeStamp |-> 4]
Transfers == {T1, T2, T3, T4, T5}
NoTransfer == [hash |-> "", to |-> "", value |-> Null, timeStamp |-> 0]

Pages == UNION {[1..n -> Transfers] : n \in 0..MaxPage}
PageLengths == 0..MaxPage

\* req.body.amount, in units of 0.0001; 0 is not a valid amount
AmountInputs == {0, 100000, 100004, 100010}

---------------------------------------------------------------------------
(* The invoice store *)

Pending(invs) == {i \in DOMAIN invs : invs[i].status = "pending"}

IdleReq == [pc |-> "idle", inv |-> Null]

\* the module has run up to `await init()`: init awaits dbInit() (db) or
\* usdtRead.decimals() (mem); depositLoop and app.listen are not yet called
Init ==
    /\ variant \in {"mem", "db"}
    /\ TAG_MAX \in TagMaxChoices
    /\ invoices = <<>>
    /\ req = [s \in Slots |-> IdleReq]
    /\ lastProcessedTime = 0
    /\ loop = [pc |-> "timer", left |-> 0, cur |-> NoTransfer, matched |-> 0]
    /\ processed_txs = {}
    /\ now = 0
    /\ everRecorded = {}
    /\ phase = IF variant = "db" THEN "dbInit" ELSE "decimals"
    /\ DECIMALS = DEFAULT_DECIMALS
    /\ timers = 0

---------------------------------------------------------------------------
(* The scheduling of depositLoop *)

\* no cycle is running
TimerLoop == [pc |-> "timer", left |-> 0, cur |-> NoTransfer, matched |-> 0]

\* depositLoop is called and runs up to its first await, the fetch
FetchLoop == [TimerLoop EXCEPT !.pc = "fetch"]

\* a faulty Rearm: the cycle ends without arming its timer
RearmNever ==
    /\ loop' = TimerLoop
    /\ timers' = timers

\* a faulty Rearm: the cycle ends arming two timers
RearmTwice ==
    /\ loop' = TimerLoop
    /\ timers' = timers + 2

\* finally { setTimeout(depositLoop, POLL_MS); }: the cycle ends
Rearm ==
    /\ loop' = TimerLoop
    /\ timers' = timers + 1

---------------------------------------------------------------------------
(* The amount tag allocator *)

\* for (let t = TAG_STEP; t <= TAG_MAX + 1e-12; t += TAG_STEP)
\*     { const tag = roundTo3(t); if (!used.has(tag)) return tag; }  return null;
RECURSIVE ScanGrid(_, _)
ScanGrid(used, t) ==
    IF t > TAG_MAX THEN Null
    ELSE LET tag == roundTo3(Num(t))
         IN  IF tag \notin used THEN tag ELSE ScanGrid(used, t + TAG_STEP)

\* mem: used holds inv.tag of the pending invoices, as stored (toFixed(3) strings)
allocateTag(invs) ==
    ScanGrid({invs[i].tag : i \in Pending(invs)}, TAG_STEP)

\* db: used holds Number(r.tag) of the rows SELECTed WHERE status='pending'
allocateTagFromDb(invs) ==
    ScanGrid({ToNumber(PgString(invs[i].tag)) : i \in Pending(invs)}, TAG_STEP)

\* the inv object both handlers build (id: a fresh UUID, here the next index)
NewInvoice(id, n, tag) ==
    LET requestedAmount == roundTo3(n)
        payAmount == roundTo3(Num(requestedAmount.val + tag.val))
    IN  [id |-> id,
         requestedAmount |-> toFixed3(requestedAmount),
         tag |-> toFixed3(tag),
         payAmount |-> toFixed3(payAmount),
         status |-> "pending",
         toAddress |-> WALLET,
         txHash |-> "null"]

\* !amount || !Number.isFinite(n) || n <= 0
InvalidAmount(amount) == amount <= 0

\* the handler has sent its response and ends
Respond(s) == req' = [req EXCEPT ![s] = IdleReq]

---------------------------------------------------------------------------
(* mem: POST /api/invoices, one synchronous handler *)

\* the status the handler answers a request for `amount` with
MemCreateStatus(amount) ==
    IF InvalidAmount(amount) THEN 400
    ELSE IF allocateTag(invoices) = Null THEN 503
    ELSE 200

MemCreate(amount) ==
    /\ variant = "mem"
    /\ phase = "up"
    /\ Len(invoices) < MaxInvoices \/ allocateTag(invoices) = Null
    /\ IF MemCreateStatus(amount) = 200
       THEN invoices' = Append(invoices,
                NewInvoice(Len(invoices) + 1, Num(amount), allocateTag(invoices)))
       ELSE UNCHANGED invoices
    /\ UNCHANGED <<variant, TAG_MAX, req, lastProcessedTime, loop, processed_txs,
                   now, everRecorded,
                   phase, DECIMALS, timers>>

---------------------------------------------------------------------------
(* mem: depositLoop.  The only await is the fetch, so handling of a page   *)
(* is one step.                                                            *)

\* a faulty MemMatch: does not skip the invoices that are no longer pending
MemMatchAnyStatus(invs, receivedAmount) ==
    LET hits == {i \in DOMAIN invs : amountsEqual(invs[i].payAmount, receivedAmount)}
    IN  IF hits = {} THEN 0 ELSE CHOOSE i \in hits : \A j \in hits : i <= j

\* for (const inv of invoices.values()): the first pending invoice whose
\* payAmount equals the received amount; 0 when there is none
MemMatch(invs, receivedAmount) ==
    LET hits == {i \in Pending(invs) : amountsEqual(invs[i].payAmount, receivedAmount)}
    IN  IF hits = {} THEN 0 ELSE CHOOSE i \in hits : \A j \in hits : i <= j

\* a faulty MemHandleTransfer: confirms without storing the hash
MemHandleTransferNoHash(invs, t) ==
    LET m == MemMatch(invs, formatTokenAmount(t.value))
    IN  IF m = 0 THEN invs
        ELSE [invs EXCEPT ![m].status = "confirmed"]

MemHandleTransfer(invs, t) ==
    LET m == MemMatch(invs, formatTokenAmount(t.value))
    IN  IF m = 0 THEN invs
        ELSE [invs EXCEPT ![m].status = "confirmed", ![m].txHash = t.hash]

\* a faulty MemSkips: the mark is not consulted
MemSkipsNoMark(t, mark) ==
    \/ t.timeStamp = 0
    \/ ToLower(t.to) # ToLower(WALLET)

\* the three `continue`s at the head of the for body
MemSkips(t, mark) ==
    \/ t.timeStamp = 0
    \/ t.timeStamp <= mark
    \/ ToLower(t.to) # ToLower(WALLET)

\* the for loop from position i on; a throw of formatTokenAmount leaves it,
\* with what the transfers before did
RECURSIVE MemHandlePage(_, _, _, _)
MemHandlePage(invs, page, i, mark) ==
    IF i > Len(page) THEN invs
    ELSE LET t == page[i]
         IN  IF MemSkips(t, mark)
             THEN MemHandlePage(invs, page, i + 1, mark)
             ELSE IF FormatThrows(t.value)
                  THEN invs
                  ELSE MemHandlePage(MemHandleTransfer(invs, t), page, i + 1, mark)

\* the for loop throws: control passes to catch, over the update of the mark
MemPageThrows(page, mark) ==
    \E i \in 1..Len(page) : ~MemSkips(page[i], mark) /\ FormatThrows(page[i].value)

\* if (transfers.length > 0) { newest = transfers[0].timeStamp;
\*                             if (newest > lastProcessedTime) lastProcessedTime = newest; }
NewMark(page, mark) ==
    IF Len(page) > 0 /\ page[1].timeStamp > mark THEN page[1].timeStamp ELSE mark

\* the fetch resolves with `page`; the rest of the cycle has no await
MemDepositLoop(page) ==
    /\ variant = "mem"
    /\ loop.pc = "fetch"
    /\ invoices' = MemHandlePage(invoices, page, 1, lastProcessedTime)
    /\ lastProcessedTime' =
           IF MemPageThrows(page, lastProcessedTime)
           THEN lastProcessedTime
           ELSE NewMark(page, lastProcessedTime)
    /\ Rearm
    /\ UNCHANGED <<variant, TAG_MAX, req, processed_txs, now, everRecorded,
                   phase, DECIMALS>>

---------------------------------------------------------------------------
(* db: the invoices table.  A row keeps the field names of the inv object; *)
(* its amounts are NUMERIC(30,18) values.                                  *)

Row(inv, id) ==
    [inv EXCEPT !.id = id,
                !.requestedAmount = ToNumeric(@),
                !.tag = ToNumeric(@),
                !.payAmount = ToNumeric(@)]

\* a faulty DbUniqueViolation: the table without its UNIQUE constraint
DbNoUniqueConstraint(invs, inv) == FALSE

\* pay_amount NUMERIC(30, 18) NOT NULL UNIQUE: over all rows, whatever their status
DbUniqueViolation(invs, inv) ==
    \E i \in DOMAIN invs : invs[i].payAmount = ToNumeric(inv.payAmount)

InFlight == {s \in Slots : req[s].pc = "insert"}

---------------------------------------------------------------------------
(* db: POST /api/invoices, two awaits: the SELECT of allocateTagFromDb and *)
(* the INSERT.                                                             *)

\* the status sent before the INSERT: 400, 503, or 0 when the handler goes on
DbBeginStatus(amount) ==
    IF InvalidAmount(amount) THEN 400
    ELSE IF allocateTagFromDb(invoices) = Null THEN 503
    ELSE 0

DbCreateBegin(s, amount) ==
    /\ variant = "db"
    /\ phase = "up"
    /\ req[s].pc = "idle"
    /\ Len(invoices) < MaxInvoices \/ allocateTagFromDb(invoices) = Null
    /\ IF DbBeginStatus(amount) # 0
       THEN Respond(s)
       ELSE req' = [req EXCEPT ![s] =
                       [pc |-> "insert",
                        inv |-> NewInvoice(0, Num(amount), allocateTagFromDb(invoices))]]
    /\ UNCHANGED <<variant, TAG_MAX, invoices, lastProcessedTime, loop,
                   processed_txs, now, everRecorded,
                   phase, DECIMALS, timers>>

\* the status the INSERT decides: 500 from the catch, 200 from res.json(inv)
DbInsertStatus(s) ==
    IF DbUniqueViolation(invoices, req[s].inv) THEN 500 ELSE 200

DbCreateInsert(s) ==
    /\ variant = "db"
    /\ req[s].pc = "insert"
    /\ Len(invoices) < MaxInvoices \/ DbUniqueViolation(invoices, req[s].inv)
    /\ IF DbInsertStatus(s) = 200
       THEN invoices' = Append(invoices, Row(req[s].inv, Len(invoices) + 1))
       ELSE UNCHANGED invoices
    /\ Respond(s)
    /\ UNCHANGED <<variant, TAG_MAX, lastProcessedTime, loop, processed_txs,
                   now, everRecorded,
                   phase, DECIMALS, timers>>

---------------------------------------------------------------------------
(* db: depositLoop, one step per await *)

(* The loop reads its page one transfer at a time and never looks ahead, so *)
(* the page is drawn as it is read: DbFetch draws its length, DbCheck the   *)
(* transfer at the position reached.                                        *)

Cur == loop.cur

\* const txHash = (t.hash || "").toLowerCase()
TxHashOf(t) == ToLower(t.hash)
CurTxHash == TxHashOf(Cur)

\* `continue`, or the end of the for body: the next transfer, or the prune
NextTransfer ==
    IF loop.left > 0
    THEN [loop EXCEPT !.pc = "check", !.cur = NoTransfer, !.matched = 0]
    ELSE [TimerLoop EXCEPT !.pc = "prune"]

\* a faulty AlreadyProcessed: the ledger is not consulted
NeverProcessed(txHash) == FALSE

\* SELECT 1 FROM processed_txs WHERE tx_hash=$1; already.rows.length > 0
AlreadyProcessed(txHash) == \E r \in processed_txs : r.tx_hash = txHash

\* a faulty DbMatch: takes the first pending row, whatever its pay_amount
DbMatchFirstPending(invs, receivedAmount) ==
    LET hits == Pending(invs)
    IN  IF hits = {} THEN 0 ELSE CHOOSE i \in hits : \A j \in hits : i <= j

\* for (const r of rows): the first pending row whose pay_amount equals the
\* received amount; its id, 0 when there is none
DbMatch(invs, receivedAmount) ==
    LET hits == {i \in Pending(invs) :
                    amountsEqual(PgString(invs[i].payAmount), receivedAmount)}
    IN  IF hits = {} THEN 0 ELSE CHOOSE i \in hits : \A j \in hits : i <= j

\* const transfers = await fetchIncomingUsdtTransfers()
DbFetch(n) ==
    /\ variant = "db"
    /\ loop.pc = "fetch"
    /\ loop' = IF n = 0 THEN [TimerLoop EXCEPT !.pc = "prune"]
               ELSE [TimerLoop EXCEPT !.pc = "check", !.left = n]
    /\ UNCHANGED <<variant, TAG_MAX, invoices, req, lastProcessedTime,
                   processed_txs, now, everRecorded,
                   phase, DECIMALS, timers>>

\* a faulty DbSkips: also skips a transfer for its age
DbSkipsOld(t) ==
    \/ TxHashOf(t) = ""
    \/ ToLower(t.to) # ToLower(WALLET)
    \/ AlreadyProcessed(TxHashOf(t))
    \/ t.timeStamp <= now

\* the three `continue`s at the head of the for body
DbSkips(t) ==
    \/ TxHashOf(t) = ""
    \/ ToLower(t.to) # ToLower(WALLET)
    \/ AlreadyProcessed(TxHashOf(t))

\* for (const t of transfers): the filters on t.hash and t.to, the SELECT on
\* processed_txs, and formatTokenAmount, whose throw ends the cycle.  After a
\* `continue` loop.cur is the transfer skipped.
DbCheck(t) ==
    /\ variant = "db"
    /\ loop.pc = "check"
    /\ LET l == [loop EXCEPT !.left = @ - 1, !.cur = t]
       IN  IF DbSkips(t)
           THEN /\ loop' = IF l.left > 0 THEN l ELSE [TimerLoop EXCEPT !.pc = "prune"]
                /\ UNCHANGED timers
           ELSE IF FormatThrows(t.value)
                THEN Rearm
                ELSE /\ loop' = [l EXCEPT !.pc = "select"]
                     /\ UNCHANGED timers
    /\ UNCHANGED <<variant, TAG_MAX, invoices, req, lastProcessedTime,
                   processed_txs, now, everRecorded, phase, DECIMALS>>

\* SELECT id, pay_amount FROM invoices WHERE status='pending', and the match
DbSelect ==
    /\ variant = "db"
    /\ loop.pc = "select"
    /\ LET m == DbMatch(invoices, formatTokenAmount(Cur.value))
       IN  loop' = [loop EXCEPT !.matched = m,
                                !.pc = IF m # 0 THEN "update" ELSE "mark"]
    /\ UNCHANGED <<variant, TAG_MAX, invoices, req, lastProcessedTime,
                   processed_txs, now, everRecorded,
                   phase, DECIMALS, timers>>

\* UPDATE invoices SET status='confirmed', tx_hash=$1 WHERE id=$2 AND status='pending'
DbUpdate ==
    /\ variant = "db"
    /\ loop.pc = "update"
    /\ invoices' = [i \in DOMAIN invoices |->
                       IF invoices[i].id = loop.matched /\ invoices[i].status = "pending"
                       THEN [invoices[i] EXCEPT !.status = "confirmed", !.txHash = Cur.hash]
                       ELSE invoices[i]]
    /\ loop' = [loop EXCEPT !.pc = "mark"]
    /\ UNCHANGED <<variant, TAG_MAX, req, lastProcessedTime, processed_txs,
                   now, everRecorded,
                   phase, DECIMALS, timers>>

InLedger(txHash) == \E r \in processed_txs : r.tx_hash = txHash

\* INSERT INTO processed_txs (tx_hash) VALUES ($1) ON CONFLICT DO NOTHING
DbMark ==
    /\ variant = "db"
    /\ loop.pc = "mark"
    /\ processed_txs' =
           IF InLedger(CurTxHash) THEN processed_txs
           ELSE processed_txs \cup {[tx_hash |-> CurTxHash, seen_at |-> now]}
    /\ everRecorded' = everRecorded \cup {CurTxHash}
    /\ loop' = NextTransfer
    /\ UNCHANGED <<variant, TAG_MAX, invoices, req, lastProcessedTime, now,
                   phase, DECIMALS, timers>>

\* DELETE FROM processed_txs WHERE seen_at < NOW() - INTERVAL '30 days'
DbPrune ==
    /\ variant = "db"
    /\ loop.pc = "prune"
    /\ processed_txs' = {r \in processed_txs : ~(r.seen_at < now - RETENTION_DAYS)}
    /\ Rearm
    /\ UNCHANGED <<variant, TAG_MAX, invoices, req, lastProcessedTime, now,
                   everRecorded, phase, DECIMALS>>

\* a pool.query of the cycle rejects: catch logs, finally re-arms the timer
DbError ==
    /\ variant = "db"
    /\ loop.pc \in {"check", "select", "update", "mark", "prune"}
    /\ Rearm
    /\ UNCHANGED <<variant, TAG_MAX, invoices, req, lastProcessedTime,
                   processed_txs, now, everRecorded, phase, DECIMALS>>

\* time passes while the timer of POLL_MS is pending
Tick ==
    /\ variant = "db"
    /\ timers > 0
    /\ now + ClockStep <= MaxNow
    /\ now' = now + ClockStep
    /\ UNCHANGED <<variant, TAG_MAX, invoices, req, lastProcessedTime, loop,
                   processed_txs, everRecorded,
                   phase, DECIMALS, timers>>

---------------------------------------------------------------------------
(* Both variants: the timer, and a fetch that fails *)

\* the timer of POLL_MS fires: the event loop calls depositLoop
TimerFires ==
    /\ phase = "up"
    /\ loop.pc = "timer"
    /\ timers > 0
    /\ timers' = timers - 1
    /\ loop' = FetchLoop
    /\ UNCHANGED <<variant, TAG_MAX, invoices, req, lastProcessedTime,
                   processed_txs, now, everRecorded, phase, DECIMALS>>

\* fetch(url) or r.json() rejects: catch logs, finally re-arms the timer
FetchError ==
    /\ loop.pc = "fetch"
    /\ Rearm
    /\ UNCHANGED <<variant, TAG_MAX, invoices, req, lastProcessedTime,
                   processed_txs, now, everRecorded, phase, DECIMALS>>

---------------------------------------------------------------------------
(* Startup: await init(); depositLoop(); app.listen(PORT, ...) *)

\* init() has resolved: the first cycle starts and the server listens
Start ==
    /\ phase' = "up"
    /\ loop' = FetchLoop

\* db: await dbInit() resolves
DbInitDone ==
    /\ phase = "dbInit"
    /\ phase' = "decimals"
    /\ UNCHANGED <<variant, TAG_MAX, invoices, req, lastProcessedTime, loop,
                   processed_txs, now, everRecorded, DECIMALS, timers>>

\* db: await dbInit() rejects, and with it init() and the module
DbInitFails ==
    /\ phase = "dbInit"
    /\ phase' = "dead"
    /\ UNCHANGED <<variant, TAG_MAX, invoices, req, lastProcessedTime, loop,
                   processed_txs, now, everRecorded, DECIMALS, timers>>

\* DECIMALS = await usdtRead.decimals() resolves
DecimalsResolves ==
    /\ phase = "decimals"
    /\ DECIMALS' = TOKEN_DECIMALS
    /\ Start
    /\ UNCHANGED <<variant, TAG_MAX, invoices, req, lastProcessedTime,
                   processed_txs, now, everRecorded, timers>>

\* usdtRead.decimals() rejects.  db: catch { DECIMALS = 18 }.  mem: init()
\* rejects, and with it the module's top-level await.
DecimalsRejects ==
    /\ phase = "decimals"
    /\ IF variant = "db"
       THEN /\ DECIMALS' = DEFAULT_DECIMALS
            /\ Start
       ELSE /\ phase' = "dead"
            /\ UNCHANGED <<DECIMALS, loop>>
    /\ UNCHANGED <<variant, TAG_MAX, invoices, req, lastProcessedTime,
                   processed_txs, now, everRecorded, timers>>

---------------------------------------------------------------------------

Next ==
    \/ DbInitDone
    \/ DbInitFails
    \/ DecimalsResolves
    \/ DecimalsRejects
    \/ TimerFires
    \/ FetchError
    \/ \E amount \in AmountInputs : MemCreate(amount)
    \/ \E page \in Pages : MemDepositLoop(page)
    \/ \E s \in Slots, amount \in AmountInputs : DbCreateBegin(s, amount)
    \/ \E s \in Slots : DbCreateInsert(s)
    \/ \E n \in PageLengths : DbFetch(n)
    \/ \E t \in Transfers : DbCheck(t)
    \/ DbSelect
    \/ DbUpdate
    \/ DbMark
    \/ DbPrune
    \/ DbError
    \/ Tick

Spec == Init /\ [][Next]_vars

\* the steps of depositLoop: its timer firing and its awaits settling
LoopNext ==
    \/ TimerFires
    \/ FetchError
    \/ \E page \in Pages : MemDepositLoop(page)
    \/ \E n \in PageLengths : DbFetch(n)
    \/ \E t \in Transfers : DbCheck(t)
    \/ DbSelect
    \/ DbUpdate
    \/ DbMark
    \/ DbPrune
    \/ DbError

\* depositLoop and its scheduling never read TAG_MAX: for its progress the
\* grid of one slot stands for every grid
LiveInit == Init /\ TAG_MAX = TAG_STEP

\* an armed timer fires, and every promise the loop awaits settles
LiveSpec == LiveInit /\ [][Next]_vars /\ WF_vars(LoopNext)

---------------------------------------------------------------------------
(* Vocabulary of the claims *)

Confirmed(invs) == {i \in DOMAIN invs : invs[i].status = "confirmed"}

\* no two pending invoices with the same payAmount
UniquePendingPayAmount ==
    \A i, j \in Pending(invoices) :
        i # j => invoices[i].payAmount.val # invoices[j].payAmount.val

\* no transaction (its hash read case-insensitively) is the txHash of two invoices
TxHashOnAtMostOneInvoice ==
    \A i, j \in Confirmed(invoices) :
        i # j => ToLower(invoices[i].txHash) # ToLower(invoices[j].txHash)

\* the grid {TAG_STEP, 2*TAG_STEP, ..., TAG_MAX}
Grid == {k * TAG_STEP : k \in 1..(TAG_MAX \div TAG_STEP)}
PendingTagVals == {invoices[i].tag.val : i \in Pending(invoices)}
FreeSlots == Grid \ PendingTagVals
GridFull == FreeSlots = {}

ValidAmounts == {a \in AmountInputs : ~InvalidAmount(a)}

\* the tag the allocator of the running variant returns in this state
Allocated ==
    IF variant = "mem" THEN allocateTag(invoices) ELSE allocateTagFromDb(invoices)

\* the loop passes the ledger check with a transfer: a match attempt follows
ActsOnTransfer == loop.pc = "check" /\ loop'.pc = "select"

---------------------------------------------------------------------------
(* C1: in the in-memory variant no two pending invoices have the same      *)
(* payAmount, whatever creations and confirmations came before.            *)
C1_MemUniquePayAmount == variant = "mem" => UniquePendingPayAmount

(* C2: in the durable variant, when two creations have both read the       *)
(* pending tags, neither has inserted and both computed the same           *)
(* payAmount, exactly one of the two inserts succeeds (the first to run    *)
(* succeeds, the other then fails), and the store never holds two pending  *)
(* invoices with equal payAmount.                                          *)
C2_RaceExactlyOneInsert ==
    variant = "db" =>
        /\ UniquePendingPayAmount
        /\ \A s1, s2 \in InFlight :
               (s1 # s2 /\ req[s1].inv.payAmount = req[s2].inv.payAmount) =>
                   /\ DbInsertStatus(s1) = 200
                   /\ DbUniqueViolation(
                          Append(invoices, Row(req[s1].inv, Len(invoices) + 1)),
                          req[s2].inv)

(* C3: in the durable variant a transaction hash is the txHash of at most  *)
(* one invoice, whatever the feed repeats or re-delivers and however       *)
(* creations, aborted cycles and pruning interleave.                       *)
C3_TxHashAtMostOneInvoice == variant = "db" => TxHashOnAtMostOneInvoice

\* a transfer that confirmed an invoice is handled again (its ledger record
\* missing) while another invoice is pending, and matches nothing
C3_Witness ==
    /\ variant = "db"
    /\ loop.pc = "mark"
    /\ loop.matched = 0
    /\ \E i \in Confirmed(invoices) : invoices[i].txHash = Cur.hash
    /\ Pending(invoices) # {}

(* C4: in the in-memory variant a transfer (transaction hash) confirms at  *)
(* most one invoice over the whole run.                                    *)
C4_MemTransferConfirmsAtMostOne == variant = "mem" => TxHashOnAtMostOneInvoice

C6_ConfirmIdempotent ==
    [][\A i \in Confirmed(invoices) :
           i \in DOMAIN invoices' /\ invoices'[i] = invoices[i]]_vars

\* another transfer of the same amount is handled after the confirmation
C6_Witness ==
    /\ variant = "db"
    /\ loop.pc = "mark"
    /\ loop.matched = 0
    /\ \E i \in Confirmed(invoices) :
           /\ amountsEqual(PgString(invoices[i].payAmount), formatTokenAmount(Cur.value))
           /\ invoices[i].txHash # Cur.hash

(* C7: whenever a grid slot is free, the allocator returns the smallest    *)
(* grid value that no pending invoice holds.                               *)
C7_AllocatorMinimal ==
    ~GridFull =>
        Allocated = Num(CHOOSE t \in FreeSlots : \A u \in FreeSlots : t <= u)

(* C8: a creation that starts when every grid slot is held by a pending    *)
(* invoice is answered 503 and leaves the store as it was.                 *)
C8_CapacityFailsClosed ==
    [][/\ \A a \in ValidAmounts :
              (GridFull /\ MemCreate(a)) =>
                  (MemCreateStatus(a) = 503 /\ invoices' = invoices)
       /\ \A s \in Slots, a \in ValidAmounts :
              (GridFull /\ DbCreateBegin(s, a)) =>
                  (DbBeginStatus(a) = 503 /\ invoices' = invoices)]_vars

(* C9: in the durable variant, with no other creation in flight, a valid   *)
(* creation request that finds a free grid slot stores its invoice: its    *)
(* INSERT is not rejected.                                                 *)
C9_SequentialCreateSucceeds ==
    (variant = "db" /\ InFlight = {}) =>
        \A a \in ValidAmounts :
            ~GridFull =>
                /\ DbBeginStatus(a) = 0
                /\ ~DbUniqueViolation(invoices,
                       NewInvoice(0, Num(a), allocateTagFromDb(invoices)))

(* C10: the txHash of every confirmed invoice is the hash of a transfer of *)
(* the feed addressed to the gateway (case-insensitively) whose raw value  *)
(* is exactly payAmount x 10^decimals.                                     *)
C10_ConfirmedByExactTransfer ==
    \A i \in Confirmed(invoices) :
        \E t \in Transfers :
            /\ t.hash = invoices[i].txHash
            /\ ToLower(t.to) = ToLower(WALLET)
            /\ t.value.val = invoices[i].payAmount.val
            /\ t.value.sub = 0

\* a transfer one smallest unit above a pending payAmount was handled and
\* matched nothing
C10_Witness ==
    /\ variant = "db"
    /\ loop.pc = "mark"
    /\ loop.matched = 0
    /\ Cur.value.sub # 0
    /\ \E i \in Pending(invoices) : invoices[i].payAmount.val = Cur.value.val
---------------------------------------------------------------------------
(* Vocabulary of the claims on the loop *)

ToGateway(t) == ToLower(t.to) = ToLower(WALLET)

\* the raw value of transfer t is exactly payAmount x 10^decimals of inv
PaysExactly(t, inv) ==
    /\ t.value.type = "bigint"
    /\ t.value.val = inv.payAmount.val
    /\ t.value.sub = 0

PaysNoPending(t) == \A i \in Pending(invoices) : ~PaysExactly(t, invoices[i])

\* a step of depositLoop (a creation leaves loop as it is)
LoopStep == loop' # loop

\* the invoices of this state are there, unchanged, in the next
InvoicesKept == SubSeq(invoices', 1, Len(invoices)) = invoices

(* C11: handling a transfer whose amount equals no pending invoice's       *)
(* payAmount changes no invoice; in the durable variant its only effect on *)
(* the stores is the ledger record of its transaction id.                  *)
C11_NoMatchLeavesInvoices ==
    [][/\ (variant = "db" /\ loop.pc = "select" /\ LoopStep /\ PaysNoPending(Cur)) =>
              /\ invoices' = invoices
              /\ processed_txs' = processed_txs
              /\ loop'.pc \in {"mark", "timer"}
       /\ (variant = "db" /\ loop.pc = "mark" /\ loop.matched = 0 /\ LoopStep) =>
              /\ invoices' = invoices
              /\ processed_txs' \subseteq
                     processed_txs \cup {[tx_hash |-> CurTxHash, seen_at |-> now]}
       /\ (/\ variant = "mem"
           /\ \A t \in Transfers :
                  (ToGateway(t) /\ t.timeStamp > lastProcessedTime) => PaysNoPending(t)) =>
              InvoicesKept]_vars

\* a transfer to the gateway was compared with the pending invoice there is,
\* whose payAmount is another, and is about to be recorded
C11_Witness ==
    /\ variant = "db"
    /\ loop.pc = "mark"
    /\ loop.matched = 0
    /\ Pending(invoices) # {}
    /\ \A i \in Pending(invoices) : invoices[i].payAmount.val # Cur.value.val
    /\ ~InLedger(CurTxHash)

\* a cycle of depositLoop is in progress
Running == loop.pc # "timer"

(* C12: once the loop is started, every cycle, whether it completes or     *)
(* throws (fetch failure, malformed transfer, failing query), ends with    *)
(* the timer armed, and after every cycle a new one starts: the loop never *)
(* stops.                                                                  *)
C12_LoopNeverStops ==
    /\ [](Running => <>(loop.pc = "timer" /\ timers = 1))
    /\ []((phase = "up" /\ loop.pc = "timer") => <>(loop.pc = "fetch"))

\* a cycle has thrown after it confirmed an invoice (the mark, or the
\* ledger, was not reached), and the timer is armed again
C12_Witness ==
    /\ loop.pc = "timer"
    /\ timers = 1
    /\ Confirmed(invoices) # {}
    /\ \/ variant = "mem" /\ lastProcessedTime = 0
       \/ variant = "db" /\ everRecorded = {}

(* C13: at most one cycle of depositLoop is in progress: while a cycle     *)
(* runs no timer is armed that could start another, never more than one    *)
(* timer is armed, and nothing runs or is armed before startup calls       *)
(* depositLoop; creations go on between the steps of the running cycle.    *)
C13_OneCycleAtATime ==
    /\ timers <= 1
    /\ Running => timers = 0
    /\ phase # "up" => (~Running /\ timers = 0)

\* a creation awaits its INSERT while the cycle awaits its UPDATE
C13_Witness ==
    /\ loop.pc = "update"
    /\ InFlight # {}
    /\ timers = 0

(* C14: in the durable variant a transfer to the gateway whose hash is not *)
(* in the ledger is never skipped, whatever its timestamp and its place in *)
(* the page; if a pending invoice with equal payAmount exists when it is   *)
(* handled, the cycle, unless it throws, confirms that invoice with the    *)
(* transfer's hash before it goes on.                                      *)
C14_NoDepositMissed ==
    [][/\ \A t \in Transfers :
              (/\ DbCheck(t)
               /\ ToGateway(t)
               /\ TxHashOf(t) # ""
               /\ ~InLedger(TxHashOf(t))
               /\ ~FormatThrows(t.value)) =>
                  (loop'.pc = "select" /\ loop'.cur = t)
       /\ (DbSelect /\ ~PaysNoPending(Cur)) =>
              /\ loop'.pc = "update"
              /\ loop'.matched \in Pending(invoices)
              /\ PaysExactly(Cur, invoices[loop'.matched])
       /\ DbUpdate =>
              /\ invoices[loop.matched].status = "pending"
              /\ invoices'[loop.matched].status = "confirmed"
              /\ invoices'[loop.matched].txHash = Cur.hash
              /\ loop'.pc = "mark"]_vars

\* a transfer has confirmed its invoice after a newer transfer was recorded
C14_Witness ==
    /\ variant = "db"
    /\ loop.pc = "mark"
    /\ loop.matched # 0
    /\ invoices[loop.matched].txHash = Cur.hash
    /\ \E t \in Transfers :
           /\ TxHashOf(t) \in everRecorded
           /\ t.timeStamp > Cur.timeStamp

(* C15: every invoice is pending or confirmed, and its txHash is null       *)
(* exactly when it is pending; a confirmed invoice never returns to        *)
(* pending, and no invoice is ever removed from the store.                 *)
C15_InvoiceLifecycle ==
    /\ [](\A i \in DOMAIN invoices :
              /\ invoices[i].status \in {"pending", "confirmed"}
              /\ invoices[i].txHash = "null" <=> invoices[i].status = "pending")
    /\ [][\A i \in DOMAIN invoices :
              /\ i \in DOMAIN invoices'
              /\ invoices'[i].id = invoices[i].id
              /\ invoices[i].status = "confirmed" => invoices'[i].status = "confirmed"]_vars

\* the store holds a confirmed invoice, its hash set, beside a pending one
C15_Witness ==
    /\ \E i \in Confirmed(invoices) : invoices[i].txHash \in {t.hash : t \in Transfers}
    /\ \E i \in Pending(invoices) : invoices[i].txHash = "null"
    /\ ~Running

\* the invoices that hold the hash of transfer t
ConfirmedBy(t) == {i \in Confirmed(invoices) : ToLower(invoices[i].txHash) = TxHashOf(t)}

(* C16: in the durable variant, when a cycle was aborted after transfer T  *)
(* confirmed its invoice and before T was recorded in the ledger, a later  *)
(* cycle that meets T handles it again, and this second handling matches   *)
(* no invoice and changes none.                                            *)
C16_RehandlingIsHarmless ==
    [][/\ \A t \in Transfers :
              (DbCheck(t) /\ ConfirmedBy(t) # {} /\ ~InLedger(TxHashOf(t))) =>
                  (loop'.pc = "select" /\ loop'.cur = t)
       /\ (/\ variant = "db"
           /\ loop.pc \in {"select", "update", "mark"}
           /\ ConfirmedBy(Cur) # {}
           /\ LoopStep) =>
              /\ invoices' = invoices
              /\ loop.pc = "select" => loop'.pc \in {"mark", "timer"}]_vars

\* T confirmed its invoice, was never recorded, and is handled again while
\* another invoice is pending
C16_Witness ==
    /\ variant = "db"
    /\ loop.pc = "select"
    /\ ConfirmedBy(Cur) # {}
    /\ CurTxHash \notin everRecorded
    /\ Pending(invoices) # {}

\* the transfers of the page the running cycle has not come to yet, the one
\* it is handling not counted
Remaining == IF loop.pc = "check" THEN loop.left - 1 ELSE loop.left

\* the for loop of the in-memory variant if a transfer that throws were
\* passed over and the rest of the page handled
RECURSIVE MemHandleEach(_, _, _, _)
MemHandleEach(invs, page, i, mark) ==
    IF i > Len(page) THEN invs
    ELSE LET t == page[i]
         IN  IF t.timeStamp = 0 \/ t.timeStamp <= mark \/ ~ToGateway(t) \/ FormatThrows(t.value)
             THEN MemHandleEach(invs, page, i + 1, mark)
             ELSE MemHandleEach(MemHandleTransfer(invs, t), page, i + 1, mark)

(* C17: the transfers of a page are handled independently: an exception    *)
(* raised while one is handled does not keep the rest of the page from     *)
(* being handled in that cycle.                                            *)
C17_TransfersIndependent ==
    [][/\ (variant = "db" /\ Running /\ loop'.pc = "timer") => Remaining = 0
       /\ \A page \in Pages :
              MemDepositLoop(page) =>
                  invoices' = MemHandleEach(invoices, page, 1, lastProcessedTime)]_vars

\* the transfers to the gateway that pay invoice i exactly
PayersOf(i) == {t \in Transfers : ToGateway(t) /\ PaysExactly(t, invoices[i])}

(* C18: in the in-memory variant the mark lastProcessedTime never          *)
(* decreases, and no cycle confirms an invoice with a transfer whose       *)
(* timestamp is at or below the mark: an invoice whose paying transfers    *)
(* are all at or below the mark stays pending.                             *)
C18_MarkSkipsForever ==
    [][variant = "mem" =>
          /\ lastProcessedTime' >= lastProcessedTime
          /\ \A i \in Pending(invoices) :
                 invoices'[i].status = "confirmed" =>
                     \E t \in Transfers :
                         /\ t.hash = invoices'[i].txHash
                         /\ t.timeStamp > lastProcessedTime
          /\ \A i \in Pending(invoices) :
                 (\A t \in PayersOf(i) : t.timeStamp <= lastProcessedTime) =>
                     invoices'[i] = invoices[i]]_vars

\* the mark has passed every transfer that pays a pending invoice, and a
\* cycle has just ended
C18_Witness ==
    /\ variant = "mem"
    /\ loop.pc = "timer"
    /\ \E i \in Pending(invoices) :
           /\ PayersOf(i) # {}
           /\ \A t \in PayersOf(i) : t.timeStamp <= lastProcessedTime

(* C19: when the read of the token's decimals fails at startup, startup    *)
(* still completes with decimals = 18: the loop is started and creations   *)
(* are served.                                                             *)
C19_DecimalsFailureNotFatal ==
    [][DecimalsRejects =>
          /\ phase' = "up"
          /\ DECIMALS' = DEFAULT_DECIMALS
          /\ loop'.pc = "fetch"]_vars

(* C20: no two pending invoices hold the same tag, under any interleaving  *)
(* of creations and confirmations.                                         *)
C20_UniquePendingTag ==
    \A i, j \in Pending(invoices) :
        i # j => invoices[i].tag.val # invoices[j].tag.val

====
